---------------------------- MODULE Spec2Model ----------------------------
(***************************************************************************)
(* The status-aggregation and job-dispatch layer of dashboard/app.py.      *)
(*                                                                         *)
(* One request is handled at a time; pc is the handler's position.  The    *)
(* outside world a request meets (command outputs, file contents, the      *)
(* query string, the clock) is drawn when the request arrives and kept in  *)
(* req, so that a property can relate the response to what the world       *)
(* offered.  Text is a sequence of one-character strings wherever the code *)
(* looks inside it (int(), rstrip, startswith, str()), and a sequence of   *)
(* whitespace-separated words where it only splits or searches by words.   *)
(* A Python value that shares a field with values of other types is a      *)
(* record of one field, named after its type.                              *)
(***************************************************************************)
EXTENDS Integers, Sequences, FiniteSets, TLC

(* ------------------------------ bounds -------------------------------- *)

\* free(1) reports total and used in 0..MaxMem (and one larger sample)
MaxMem == 3
\* the longest list under one key of alerts.json
MaxAlerts == 1
\* the longest ?lines= query value, in characters
MaxQueryLen == 2
\* the most lines a log file holds
MaxLogLines == 2
\* the most child processes launched in one run of the model
MaxChildren == 2
\* the clock reads 0..MaxClock
MaxClock == 1

(* ------------------------- text and numbers --------------------------- *)

Digit == <<"0", "1", "2", "3", "4", "5", "6", "7", "8", "9">>

IsDigit(c) == \E i \in 1..10 : Digit[i] = c

DigitVal(c) == (CHOOSE i \in 1..10 : Digit[i] = c) - 1

\* the value of a string of decimal digits
RECURSIVE DigitsVal(_)
DigitsVal(s) ==
    IF s = <<>> THEN 0
    ELSE 10 * DigitsVal(SubSeq(s, 1, Len(s) - 1)) + DigitVal(s[Len(s)])

\* the decimal digits of n >= 0
RECURSIVE Digits(_)
Digits(n) ==
    IF n < 10 THEN <<Digit[n + 1]>>
    ELSE Digits(n \div 10) \o <<Digit[(n % 10) + 1]>>

\* str(n) of an int
IntToStr(n) == IF n < 0 THEN <<"-">> \o Digits(-n) ELSE Digits(n)

\* int(s) of a string: an optional sign, then one or more digits; anything
\* else is a ValueError (ok = FALSE)
ParseInt(s) ==
    LET signed == s # <<>> /\ s[1] \in {"-", "+"}
        body == IF signed THEN Tail(s) ELSE s
    IN IF body = <<>> \/ \E i \in 1..Len(body) : ~IsDigit(body[i])
       THEN [ok |-> FALSE, v |-> 0]
       ELSE [ok |-> TRUE,
             v |-> IF signed /\ s[1] = "-" THEN -DigitsVal(body) ELSE DigitsVal(body)]

\* float(s) of a string digits[.digits] with at most two decimals, in
\* hundredths (/proc/loadavg prints two decimals); anything else is a
\* ValueError
ParseFloat(s) ==
    LET dots == {i \in 1..Len(s) : s[i] = "."}
        dot == IF dots = {} THEN Len(s) + 1 ELSE CHOOSE i \in dots : TRUE
        whole == SubSeq(s, 1, dot - 1)
        frac == SubSeq(s, dot + 1, Len(s))
        wellFormed ==
            /\ Cardinality(dots) <= 1
            /\ whole # <<>>
            /\ Len(frac) <= 2
            /\ \A i \in 1..Len(s) : i \in dots \/ IsDigit(s[i])
    IN IF ~wellFormed THEN [ok |-> FALSE, v |-> 0]
       ELSE [ok |-> TRUE,
             v |-> 100 * DigitsVal(whole)
                   + (IF Len(frac) = 1 THEN 10 * DigitsVal(frac) ELSE DigitsVal(frac))]

\* s.rstrip(c)
RECURSIVE RStrip(_, _)
RStrip(s, c) ==
    IF s # <<>> /\ s[Len(s)] = c THEN RStrip(SubSeq(s, 1, Len(s) - 1), c) ELSE s

\* s.startswith(p)
StartsWith(s, p) == Len(s) >= Len(p) /\ SubSeq(s, 1, Len(p)) = p

\* Python values that share a field with values of another type
PyInt(n) == [int |-> n]
PyFloat(hundredths) == [float |-> hundredths]
PyStr(s) == [str |-> s]

\* type(v), and the value under it
Ty(v) == CHOOSE t \in DOMAIN v : TRUE
Val(v) == v[Ty(v)]

(* ------------------- binary64 arithmetic of line 87 ------------------- *)
(* int((used / total) * 100) is computed in IEEE-754 double precision: a   *)
(* correctly rounded division, a correctly rounded multiplication, then    *)
(* truncation.  A value is man * 2^(exp - 52), man a 53-bit significand    *)
(* held as a leading 1 and four 13-bit limbs, most significant first.      *)

LimbBits == 13
Limb == 8192
NumLimbs == 4

RECURSIVE Pow2(_)
Pow2(n) == IF n = 0 THEN 1 ELSE 2 * Pow2(n - 1)

\* least k with a * 2^k >= b
RECURSIVE ShiftUntil(_, _, _)
ShiftUntil(a, b, k) == IF a >= b THEN k ELSE ShiftUntil(2 * a, b, k + 1)

\* greatest k with b * 2^k <= a   (a >= b)
RECURSIVE ShiftWhile(_, _, _)
ShiftWhile(a, b, k) == IF 2 * b > a THEN k ELSE ShiftWhile(a, 2 * b, k + 1)

\* long division: the next n limbs of r / d (r < d), then the last remainder
RECURSIVE DivLimbs(_, _, _)
DivLimbs(r, d, n) ==
    IF n = 0 THEN <<r>>
    ELSE <<(r * Limb) \div d>> \o DivLimbs((r * Limb) % d, d, n - 1)

\* m + 1 on the limbs of a significand; the top limb is 2 when it overflows
RECURSIVE IncLimbs(_)
IncLimbs(m) ==
    IF Len(m) = 1 THEN <<m[1] + 1>>
    ELSE IF m[Len(m)] + 1 < Limb THEN SubSeq(m, 1, Len(m) - 1) \o <<m[Len(m)] + 1>>
    ELSE IncLimbs(SubSeq(m, 1, Len(m) - 1)) \o <<0>>

\* round to nearest, ties to even: the discarded part is above (1), exactly
\* (0) or below (-1) one half unit in the last place
RoundEven(exp, man, cmp) ==
    IF cmp > 0 \/ (cmp = 0 /\ man[Len(man)] % 2 = 1)
    THEN IF IncLimbs(man)[1] = 2
         THEN [exp |-> exp + 1, man |-> <<1>> \o [i \in 1..NumLimbs |-> 0]]
         ELSE [exp |-> exp, man |-> IncLimbs(man)]
    ELSE [exp |-> exp, man |-> man]

FloatZero == [exp |-> 0, man |-> <<0>> \o [i \in 1..NumLimbs |-> 0]]

\* u / t on ints u >= 0, t > 0: the correctly rounded quotient
FloatDiv(u, t) ==
    IF u = 0 THEN FloatZero
    ELSE LET up == IF u >= t THEN 0 ELSE ShiftUntil(u, t, 0)
             dn == IF u >= t THEN ShiftWhile(u, t, 0) ELSE 0
             n == u * Pow2(up)
             d == t * Pow2(dn)
             q == DivLimbs(n - d, d, NumLimbs)
             rem == q[NumLimbs + 1]
             cmp == IF 2 * rem > d THEN 1 ELSE IF 2 * rem = d THEN 0 ELSE -1
         IN RoundEven(dn - up, <<1>> \o SubSeq(q, 1, NumLimbs), cmp)

\* m * k on limbs; the top limb takes the carry
RECURSIVE MulLimbs(_, _, _)
MulLimbs(m, k, carry) ==
    IF Len(m) = 1 THEN <<m[1] * k + carry>>
    ELSE MulLimbs(SubSeq(m, 1, Len(m) - 1), k, (m[Len(m)] * k + carry) \div Limb)
         \o <<(m[Len(m)] * k + carry) % Limb>>

\* p shifted right by s bits (s < 13), limb by limb
ShiftRight(p, s) ==
    [i \in 1..Len(p) |->
        IF i = 1 THEN p[1] \div Pow2(s)
        ELSE (p[i - 1] % Pow2(s)) * Pow2(LimbBits - s) + p[i] \div Pow2(s)]

\* x * 100, correctly rounded
FloatMul100(x) ==
    IF x.man[1] = 0 THEN FloatZero
    ELSE LET p == MulLimbs(x.man, 100, 0)
             s == IF p[1] < 128 THEN 6 ELSE 7
             low == p[Len(p)] % Pow2(s)
             half == Pow2(s - 1)
             cmp == IF low > half THEN 1 ELSE IF low = half THEN 0 ELSE -1
         IN RoundEven(x.exp + s, <<>> \o ShiftRight(p, s), cmp)

\* int(x) for x >= 0: truncation toward zero (x < 2^26)
FloatToInt(x) ==
    IF x.exp < 0 THEN 0
    ELSE IF x.exp <= LimbBits
    THEN x.man[1] * Pow2(x.exp) + x.man[2] \div Pow2(LimbBits - x.exp)
    ELSE x.man[1] * Pow2(x.exp) + x.man[2] * Pow2(x.exp - LimbBits)
         + x.man[3] \div Pow2(2 * LimbBits - x.exp)

\* int((used / total) * 100)
MemPct(used, total) == FloatToInt(FloatMul100(FloatDiv(used, total)))


(* ------------------------------- state -------------------------------- *)

VARIABLES
    pc,        \* where the request being handled stands: "idle" between
               \* requests, "done" once its response is made
    req,       \* the request and the world it meets
    status,    \* get_system_status's local dict
    tailArgs,  \* the arguments of the tail invocation in flight
    response,  \* the answer to the last request
    children   \* the child processes launched so far

vars == <<pc, req, status, tailArgs, response, children>>

NoRequest == [kind |-> "none"]
NoResponse == [code |-> 0]
NoTail == [n |-> <<>>, path |-> "none"]

\* os.uname().nodename
HOSTNAME == "host"

\* datetime.now().isoformat() at clock reading t
IsoFormat(t) == <<"2", "0", "2", "5", "T">> \o Digits(t)

Clock == 0..MaxClock

(* ------------------------ what a command does ------------------------- *)
(* subprocess.check_output returns the output (ok), raises because the     *)
(* command is missing or exits non-zero (fail), or does not return while   *)
(* the command runs (hang).                                                *)

CmdOk(out) == [rc |-> "ok", out |-> out]
CmdFail == [rc |-> "fail", out |-> <<>>]
CmdHang == [rc |-> "hang", out |-> <<>>]

\* what a reader did: raised, or ran through and assigned val or nothing
Raised == [raised |-> TRUE, assigned |-> FALSE, val |-> PyInt(0)]
NotAssigned == [raised |-> FALSE, assigned |-> FALSE, val |-> PyInt(0)]
Assigned(val) == [raised |-> FALSE, assigned |-> TRUE, val |-> val]

(* ------------------------- get_system_status -------------------------- *)

DefaultStatus(now) ==
    [hostname |-> HOSTNAME,
     timestamp |-> IsoFormat(now),
     disk_usage |-> PyInt(0),
     memory_usage |-> PyInt(0),
     load_avg |-> PyFloat(0),
     uptime |-> PyStr(<<"unknown">>),
     firewall |-> PyStr(<<"unknown">>)]

\* df -h / : each output is the list output.split('\n'), a line the list
\* of its words, the last line the empty one after the final newline
DfHeader == <<<<"F", "s">>, <<"S", "i", "z", "e">>, <<"U", "s", "e", "d">>,
              <<"A", "v", "a", "i", "l">>, <<"U", "s", "e", "%">>, <<"M", "n", "t">>>>
DfRow == <<<<"/", "d", "e", "v">>, <<"5", "0", "G">>, <<"2", "2", "G">>,
           <<"2", "8", "G">>, <<"4", "5", "%">>, <<"/">>>>
DfShortRow == <<<<"/", "d", "e", "v">>, <<"5", "0", "G">>>>

DfOutcomes ==
    {CmdOk(<<DfHeader, DfRow, <<>>>>),
     CmdOk(<<DfHeader, <<>>, DfRow, <<>>>>),
     CmdOk(<<DfHeader, <<>>>>),
     CmdOk(<<DfHeader, DfShortRow, <<>>>>),
     CmdFail, CmdHang}

\* the least member of a non-empty set of numbers
Min(S) == CHOOSE x \in S : \A y \in S : x <= y

\* lines 74-79: the first non-empty line after the header decides
DiskRead(o) ==
    IF o.rc # "ok" THEN Raised
    ELSE LET rows == {i \in 2..Len(o.out) : o.out[i] # <<>>}
         IN IF rows = {} THEN NotAssigned
            ELSE IF Len(o.out[Min(rows)]) < 5 THEN Raised
            ELSE Assigned(PyStr(RStrip(o.out[Min(rows)][5], "%")))

\* free: lines of words, as for df
MemMarker == <<"M", "e", "m", ":">>
FreeHeader == <<<<"t", "o", "t", "a", "l">>, <<"u", "s", "e", "d">>, <<"f", "r", "e", "e">>>>
SwapLine == <<<<"S", "w", "a", "p", ":">>, <<"0">>, <<"0">>, <<"0">>>>
MemLine(total, used) == <<MemMarker, Digits(total), Digits(used), <<"0">>>>

\* total and used as free prints them: every pair in 0..MaxMem, and 50 and 29
MemSamples == ((0..MaxMem) \X (0..MaxMem)) \cup {<<50, 29>>}

\* line 87 on the sampled pairs, computed once
MemPctTable ==
    {[total |-> m[1], used |-> m[2], pct |-> MemPct(m[2], m[1])] :
        m \in {x \in MemSamples : x[1] > 0}}

\* line 87: the table where it has the pair, the computation elsewhere
Percent(used, total) ==
    IF \E e \in MemPctTable : e.total = total /\ e.used = used
    THEN (CHOOSE e \in MemPctTable : e.total = total /\ e.used = used).pct
    ELSE MemPct(used, total)

FreeOutcomes ==
    {CmdOk(<<FreeHeader, MemLine(m[1], m[2]), SwapLine, <<>>>>) : m \in MemSamples}
    \cup {CmdOk(<<FreeHeader, SwapLine, <<>>>>),
          CmdOk(<<FreeHeader, <<MemMarker, <<"7", ".", "7", "G", "i">>, <<"2", "G", "i">>>>, <<>>>>),
          CmdFail, CmdHang}

\* line.startswith('Mem:') on a line given as its words
LineStartsWith(line, p) == line # <<>> /\ StartsWith(line[1], p)

\* lines 82-88: the first line that starts with 'Mem:' decides
MemoryRead(o) ==
    IF o.rc # "ok" THEN Raised
    ELSE LET hits == {i \in 1..Len(o.out) : LineStartsWith(o.out[i], MemMarker)}
             parts == o.out[Min(hits)]
         IN IF hits = {} THEN NotAssigned
            ELSE IF Len(parts) < 3 THEN Raised
            ELSE IF ~ParseInt(parts[2]).ok \/ ~ParseInt(parts[3]).ok THEN Raised
            ELSE IF ParseInt(parts[2]).v = 0 THEN Raised
            ELSE Assigned(PyInt(Percent(ParseInt(parts[3]).v, ParseInt(parts[2]).v)))

\* /proc/loadavg: the words of the file, or open() failing
LoadavgOutcomes ==
    {CmdOk(<<<<"0", ".", "5", "2">>, <<"0", ".", "4", "0">>>>),
     CmdOk(<<>>),
     CmdFail}

\* lines 91-92
LoadAvgRead(o) ==
    IF o.rc # "ok" THEN Raised
    ELSE IF o.out = <<>> THEN Raised
    ELSE IF ~ParseFloat(o.out[1]).ok THEN Raised
    ELSE Assigned(PyFloat(ParseFloat(o.out[1]).v))

\* uptime -p: the words of the stripped output
UptimeOutcomes == {CmdOk(<<"up", "2", "hours">>), CmdFail, CmdHang}

\* s.replace('up ', '') on the words of s: every word 'up' that a blank
\* follows goes (no other word of the outputs drawn ends in 'up')
ReplaceUp(words) ==
    LET keep == {i \in 1..Len(words) : ~(words[i] = "up" /\ i < Len(words))}
        Nth(k) == CHOOSE i \in keep : Cardinality({j \in keep : j < i}) = k - 1
    IN [k \in 1..Cardinality(keep) |-> words[Nth(k)]]

\* lines 95-96
UptimeRead(o) ==
    IF o.rc # "ok" THEN Raised
    ELSE Assigned(PyStr(<<>> \o ReplaceUp(o.out)))

\* sudo ufw status: the words of the output
UfwOutcomes ==
    {CmdOk(<<"Status:", "active">>), CmdOk(<<"Status:", "inactive">>), CmdFail, CmdHang}

\* 'Status: active' in ufw_output
HasStatusActive(words) ==
    \E i \in 1..(Len(words) - 1) : words[i] = "Status:" /\ words[i + 1] = "active"

\* lines 99-100
FirewallRead(o) ==
    IF o.rc # "ok" THEN Raised
    ELSE Assigned(PyStr(IF HasStatusActive(o.out) THEN <<"active">> ELSE <<"inactive">>))

\* GET /api/status arrives; get_system_status builds its dict of defaults
ApiStatus ==
    /\ pc = "idle"
    /\ \E now \in Clock, df \in DfOutcomes, free \in FreeOutcomes,
          loadavg \in LoadavgOutcomes, uptime \in UptimeOutcomes, ufw \in UfwOutcomes :
          /\ req' = [kind |-> "status", now |-> now, df |-> df, free |-> free,
                     loadavg |-> loadavg, uptime |-> uptime, ufw |-> ufw]
          /\ status' = DefaultStatus(now)
    /\ pc' = "df"
    /\ response' = NoResponse
    /\ UNCHANGED <<tailArgs, children>>

\* one reader inside the single try block: an exception leaves for the
\* handler of line 102, which logs and falls through to the return
ReadDisk ==
    /\ pc = "df"
    /\ req.df.rc # "hang"
    /\ status' = IF DiskRead(req.df).assigned
                 THEN [status EXCEPT !.disk_usage = DiskRead(req.df).val]
                 ELSE status
    /\ pc' = IF DiskRead(req.df).raised THEN "return" ELSE "free"
    /\ UNCHANGED <<req, tailArgs, response, children>>

ReadMemory ==
    /\ pc = "free"
    /\ req.free.rc # "hang"
    /\ LET r == MemoryRead(req.free)
       IN /\ status' = IF r.assigned THEN [status EXCEPT !.memory_usage = r.val] ELSE status
          /\ pc' = IF r.raised THEN "return" ELSE "loadavg"
    /\ UNCHANGED <<req, tailArgs, response, children>>


\* the load-average reader in a try block of its own: its failure is
\* swallowed and the next reader runs
ReadLoadAvgOwnTry ==
    /\ pc = "loadavg"
    /\ status' = IF LoadAvgRead(req.loadavg).assigned
                 THEN [status EXCEPT !.load_avg = LoadAvgRead(req.loadavg).val]
                 ELSE status
    /\ pc' = "uptime"
    /\ UNCHANGED <<req, tailArgs, response, children>>

ReadLoadAvg ==
    /\ pc = "loadavg"
    /\ status' = IF LoadAvgRead(req.loadavg).assigned
                 THEN [status EXCEPT !.load_avg = LoadAvgRead(req.loadavg).val]
                 ELSE status
    /\ pc' = IF LoadAvgRead(req.loadavg).raised THEN "return" ELSE "uptime"
    /\ UNCHANGED <<req, tailArgs, response, children>>

ReadUptime ==
    /\ pc = "uptime"
    /\ req.uptime.rc # "hang"
    /\ status' = IF UptimeRead(req.uptime).assigned
                 THEN [status EXCEPT !.uptime = UptimeRead(req.uptime).val]
                 ELSE status
    /\ pc' = IF UptimeRead(req.uptime).raised THEN "return" ELSE "ufw"
    /\ UNCHANGED <<req, tailArgs, response, children>>

ReadFirewall ==
    /\ pc = "ufw"
    /\ req.ufw.rc # "hang"
    /\ status' = IF FirewallRead(req.ufw).assigned
                 THEN [status EXCEPT !.firewall = FirewallRead(req.ufw).val]
                 ELSE status
    /\ pc' = "return"
    /\ UNCHANGED <<req, tailArgs, response, children>>

\* return status; api_status answers jsonify(status)
StatusReturn ==
    /\ pc = "return"
    /\ response' = [code |-> 200, body |-> status]
    /\ pc' = "done"
    /\ UNCHANGED <<req, status, tailArgs, children>>

Init ==
    /\ pc = "idle"
    /\ req = NoRequest
    /\ status = DefaultStatus(0)
    /\ tailArgs = NoTail
    /\ response = NoResponse
    /\ children = <<>>

\* the request is over: nothing it built outlives it
EndRequest ==
    /\ pc = "done"
    /\ pc' = "idle"
    /\ req' = NoRequest
    /\ status' = DefaultStatus(0)
    /\ tailArgs' = NoTail
    /\ response' = NoResponse
    /\ UNCHANGED children

StatusStep ==
    \/ ReadDisk
    \/ ReadMemory
    \/ ReadLoadAvg
    \/ ReadUptime
    \/ ReadFirewall
    \/ StatusReturn


(* ----------------------------- get_alerts ----------------------------- *)
(* A JSON value is a list, a number, null or an object; an object is a     *)
(* function from the keys it holds.                                        *)

JList(n) == [list |-> [i \in 1..n |-> "alert"]]
JNull == [null |-> TRUE]
JDict(f) == [dict |-> f]

AlertKeys == {"critical", "high", "medium", "info", "total"}

\* what a key of alerts.json may hold
AlertVals == {JList(n) : n \in 0..MaxAlerts} \cup {JNull, PyInt(7)}

\* what alerts.json may parse to
AlertDocs ==
    {JDict(f) : f \in UNION {[S -> AlertVals] : S \in SUBSET AlertKeys}}
    \cup {JNull, JList(0), PyInt(7)}

\* the alerts file: not there, there but open() fails, there but not JSON,
\* or JSON
AlertsFiles ==
    {[st |-> x, doc |-> JNull] : x \in {"missing", "unreadable", "unparsable"}}
    \cup {[st |-> "parsed", doc |-> d] : d \in AlertDocs}

\* bool(v)
Truthy(v) ==
    CASE Ty(v) = "dict" -> DOMAIN v.dict # {}
      [] Ty(v) = "list" -> v.list # <<>>
      [] Ty(v) = "int" -> v.int # 0
      [] OTHER -> FALSE

\* lines 38-46: what json.load gave is returned as it is; a missing file and
\* a caught exception both end at `return default or {}`
ReadJson(file, default) ==
    IF file.st = "parsed" THEN file.doc
    ELSE IF Truthy(default) THEN default
    ELSE JDict(<<>>)

\* lines 111-116
DefaultAlerts ==
    JDict([k \in {"critical", "high", "medium", "info"} |-> JList(0)])

\* d.get(k, []) on a dict
DictGet(d, k) == IF k \in DOMAIN d.dict THEN d.dict[k] ELSE JList(0)

\* len(v) is defined
Sized(v) == Ty(v) \in {"list", "dict"}

\* len(v)
PyLen(v) == IF Ty(v) = "dict" THEN Cardinality(DOMAIN v.dict) ELSE Len(v.list)

\* lines 108-124: the summary, or the exception that escapes (.get on a
\* value that is no dict, len() of a value that has none)
GetAlerts(file) ==
    LET alerts == ReadJson(file, DefaultAlerts)
    IN IF Ty(alerts) # "dict"
       THEN [raised |-> TRUE, error |-> "AttributeError"]
       ELSE IF \E k \in {"critical", "high", "medium"} : ~Sized(DictGet(alerts, k))
       THEN [raised |-> TRUE, error |-> "TypeError"]
       ELSE [raised |-> FALSE,
             val |-> [critical |-> DictGet(alerts, "critical"),
                      high |-> DictGet(alerts, "high"),
                      medium |-> DictGet(alerts, "medium"),
                      info |-> DictGet(alerts, "info"),
                      total |-> PyLen(DictGet(alerts, "critical"))
                                + PyLen(DictGet(alerts, "high"))
                                + PyLen(DictGet(alerts, "medium"))]]

\* lines 174-177: GET /api/alerts; an exception that escapes the view is
\* the framework's 500
ApiAlerts ==
    /\ pc = "idle"
    /\ \E file \in AlertsFiles :
          /\ req' = [kind |-> "alerts", file |-> file]
          /\ response' = IF GetAlerts(file).raised
                         THEN [code |-> 500, error |-> GetAlerts(file).error]
                         ELSE [code |-> 200, body |-> GetAlerts(file).val]
    /\ pc' = "done"
    /\ UNCHANGED <<status, tailArgs, children>>

(* ------------------------- activity and logs -------------------------- *)

\* the default of request.args.get('lines', 100, type=int)
DefaultLines == 100

QueryChars == {"-", "0", "1", "x"}

\* the lines parameter of the query string: absent, or its text
QueryVals ==
    {[present |-> FALSE, v |-> <<>>]}
    \cup {[present |-> TRUE, v |-> s] :
            s \in UNION {[1..n -> QueryChars] : n \in 0..MaxQueryLen}}

\* request.args.get(key, default, type=int): the default when the key is
\* absent and when int() raises ValueError
ArgsGetInt(q, default) ==
    IF q.present /\ ParseInt(q.v).ok THEN ParseInt(q.v).v ELSE default

\* a log file of n lines
LogFile(n) == [i \in 1..n |-> <<"l">> \o Digits(i)]

LogFiles == {LogFile(n) : n \in 0..MaxLogLines}

\* tail succeeds, exits non-zero, or does not return
TailOutcomes == {"ok", "fail", "hang"}

\* tail -n NUM file: the last NUM lines, NUM read without its sign
TailLines(n, file) ==
    LET k == IF ParseInt(n).v < 0 THEN -ParseInt(n).v ELSE ParseInt(n).v
    IN SubSeq(file, IF k >= Len(file) THEN 1 ELSE Len(file) - k + 1, Len(file))

\* output.split('\n') of newline-terminated lines: the lines, then ''
SplitLines(lines) == lines \o <<<<>>>>

\* lines 180-184 and 127-135: GET /api/activity up to the tail invocation
ApiActivity ==
    /\ pc = "idle"
    /\ \E q \in QueryVals, exists \in BOOLEAN, tail \in TailOutcomes, file \in LogFiles :
          /\ req' = [kind |-> "activity", lines |-> q, exists |-> exists,
                     tail |-> tail, file |-> file]
          /\ IF ~exists
             THEN /\ response' = [code |-> 200, body |-> [activity |-> <<>>]]
                  /\ tailArgs' = NoTail
                  /\ pc' = "done"
             ELSE /\ response' = NoResponse
                  /\ tailArgs' = [n |-> IntToStr(ArgsGetInt(q, DefaultLines)),
                                  path |-> "activity.log"]
                  /\ pc' = "activity_tail"
    /\ UNCHANGED <<status, children>>

\* lines 135-139: check_output returns or raises
ActivityTail ==
    /\ pc = "activity_tail"
    /\ req.tail # "hang"
    /\ response' = [code |-> 200,
                    body |-> [activity |-> IF req.tail = "ok"
                                           THEN SplitLines(TailLines(tailArgs.n, req.file))
                                           ELSE <<>>]]
    /\ pc' = "done"
    /\ UNCHANGED <<req, status, tailArgs, children>>

\* the type parameter: absent, or its text
LogTypes ==
    {[present |-> FALSE, v |-> ""]}
    \cup {[present |-> TRUE, v |-> t] : t \in {"activity", "sysadmin", "audit"}}

\* lines 249-255
LogPath(t) ==
    IF (IF t.present THEN t.v ELSE "sysadmin") = "activity"
    THEN "activity.log"
    ELSE "/var/log/sysadmin/sysadmin.log"

\* lines 246-261: GET /api/logs up to the tail invocation
ApiLogs ==
    /\ pc = "idle"
    /\ \E t \in LogTypes, q \in QueryVals, exists \in BOOLEAN,
          tail \in TailOutcomes, file \in LogFiles :
          /\ req' = [kind |-> "logs", type |-> t, lines |-> q, exists |-> exists,
                     tail |-> tail, file |-> file]
          /\ IF ~exists
             THEN /\ response' = [code |-> 200, body |-> [lines |-> <<>>]]
                  /\ tailArgs' = NoTail
                  /\ pc' = "done"
             ELSE /\ response' = NoResponse
                  /\ tailArgs' = [n |-> IntToStr(ArgsGetInt(q, DefaultLines)),
                                  path |-> LogPath(t)]
                  /\ pc' = "logs_tail"
    /\ UNCHANGED <<status, children>>

\* lines 261-264
LogsTail ==
    /\ pc = "logs_tail"
    /\ req.tail # "hang"
    /\ response' = IF req.tail = "ok"
                   THEN [code |-> 200,
                         body |-> [lines |-> SplitLines(TailLines(tailArgs.n, req.file))]]
                   ELSE [code |-> 500, error |-> "CalledProcessError"]
    /\ pc' = "done"
    /\ UNCHANGED <<req, status, tailArgs, children>>

(* --------------------------- api_trigger_job -------------------------- *)

JobIds == {"hourly", "daily", "weekly", "Hourly"}


\* the allow-list grown by a job nobody registered
AllowListWithWeekly == {"hourly", "daily", "weekly"}

\* line 218
AllowList == {"hourly", "daily"}

\* run-<job>.sh: not there, there and startable, or there but Popen raises
\* (not executable, a directory, no process to be had)
ScriptStates == {"missing", "launchable", "unlaunchable"}


\* the existence check left out
ScriptExistsUnchecked(script) == TRUE

\* line 222: script_path.exists()
ScriptExists(script) == script # "missing"

\* job.capitalize()
Capitalize(job) ==
    CASE job = "hourly" -> "Hourly"
      [] job = "daily" -> "Daily"
      [] job = "weekly" -> "Weekly"
      [] OTHER -> job

\* lines 215-223: POST /api/trigger/<job> up to the launch.  The request
\* that would launch is drawn only while the model has room for its child.
ApiTriggerJob ==
    /\ pc = "idle"
    /\ \E job \in JobIds, script \in ScriptStates :
          /\ (job \in AllowList /\ ScriptExists(script)) => Len(children) < MaxChildren
          /\ req' = [kind |-> "trigger", job |-> job, script |-> script]
          /\ IF job \notin AllowList
             THEN /\ response' = [code |-> 400, body |-> [error |-> "Invalid job type"]]
                  /\ pc' = "done"
             ELSE IF ~ScriptExists(script)
             THEN /\ response' = [code |-> 404, body |-> [error |-> "Script not found"]]
                  /\ pc' = "done"
             ELSE /\ response' = NoResponse
                  /\ pc' = "popen"
    /\ UNCHANGED <<status, tailArgs, children>>

\* lines 225-232 and 239-243: Popen starts the child and returns, or raises
TriggerPopen ==
    /\ pc = "popen"
    /\ IF req.script = "launchable"
       THEN /\ children' = Append(children, [job |-> req.job, st |-> "running"])
            /\ pc' = "launched"
            /\ UNCHANGED response
       ELSE /\ response' = [code |-> 500, body |-> [success |-> FALSE, error |-> "OSError"]]
            /\ pc' = "done"
            /\ UNCHANGED children
    /\ UNCHANGED <<req, status, tailArgs>>


\* the success response built without reading the clock
TriggerReturnUnstamped ==
    /\ pc = "launched"
    /\ response' = [code |-> 200,
                    body |-> [success |-> TRUE,
                              message |-> <<Capitalize(req.job), "maintenance", "job", "started">>,
                              timestamp |-> <<>>]]
    /\ pc' = "done"
    /\ UNCHANGED <<req, status, tailArgs, children>>

\* the response held back until the job has ended, as after Popen.wait()
TriggerReturnAfterWait ==
    /\ pc = "launched"
    /\ children[Len(children)].st # "running"
    /\ \E now \in Clock :
          response' = [code |-> 200,
                       body |-> [success |-> children[Len(children)].st = "exit0",
                                 message |-> <<Capitalize(req.job), "maintenance", "job", "started">>,
                                 timestamp |-> IsoFormat(now)]]
    /\ pc' = "done"
    /\ UNCHANGED <<req, status, tailArgs, children>>

\* lines 234-238
TriggerReturn ==
    /\ pc = "launched"
    /\ \E now \in Clock :
          response' = [code |-> 200,
                       body |-> [success |-> TRUE,
                                 message |-> <<Capitalize(req.job), "maintenance", "job", "started">>,
                                 timestamp |-> IsoFormat(now)]]
    /\ pc' = "done"
    /\ UNCHANGED <<req, status, tailArgs, children>>

\* a launched job ends, with exit status 0 or 1, whenever it does
ChildExit ==
    /\ \E i \in 1..Len(children), code \in {"exit0", "exit1"} :
          /\ children[i].st = "running"
          /\ children' = [children EXCEPT ![i].st = code]
    /\ UNCHANGED <<pc, req, status, tailArgs, response>>

(* --------------------------- specifications --------------------------- *)

\* the read side: status, alerts, activity, logs
ReadNext ==
    \/ ApiStatus
    \/ StatusStep
    \/ ApiAlerts
    \/ ApiActivity
    \/ ActivityTail
    \/ ApiLogs
    \/ LogsTail
    \/ EndRequest

\* the handler runs on whenever it can; a command it waits for may never end
ReadSpec ==
    /\ Init
    /\ [][ReadNext]_vars
    /\ WF_vars(StatusStep)
    /\ WF_vars(ActivityTail)
    /\ WF_vars(LogsTail)
    /\ WF_vars(EndRequest)

\* the job dispatcher and the jobs it launched
JobNext ==
    \/ ApiTriggerJob
    \/ TriggerPopen
    \/ TriggerReturn
    \/ ChildExit
    \/ EndRequest

\* the handler runs on whenever it can; a launched job may never end
JobSpec ==
    /\ Init
    /\ [][JobNext]_vars
    /\ WF_vars(TriggerPopen)
    /\ WF_vars(TriggerReturn)
    /\ WF_vars(EndRequest)

Next == ReadNext \/ JobNext

Spec == Init /\ [][Next]_vars


(* ------------------------------- claims ------------------------------- *)

\* the five metric fields in the order their readers run
Fields == <<"disk_usage", "memory_usage", "load_avg", "uptime", "firewall">>

StatusKeys ==
    {"hostname", "timestamp", "disk_usage", "memory_usage", "load_avg", "uptime", "firewall"}

\* what reader i does with what the world offers this request
ReaderResult(i) ==
    CASE i = 1 -> DiskRead(req.df)
      [] i = 2 -> MemoryRead(req.free)
      [] i = 3 -> LoadAvgRead(req.loadavg)
      [] i = 4 -> UptimeRead(req.uptime)
      [] i = 5 -> FirewallRead(req.ufw)

Fails(i) == ReaderResult(i).raised

DefaultOf(i) == DefaultStatus(0)[Fields[i]]

\* the value reader i leaves in its field when it runs and does not fail
ReadValue(i) == IF ReaderResult(i).assigned THEN ReaderResult(i).val ELSE DefaultOf(i)

\* the first reader that fails, 6 when none does
FirstFailure ==
    IF \E i \in 1..5 : Fails(i)
    THEN CHOOSE i \in 1..5 : Fails(i) /\ \A j \in 1..(i - 1) : ~Fails(j)
    ELSE 6

StatusDone == pc = "done" /\ req.kind = "status"

\* C1: whichever readers fail, the snapshot get_system_status returns holds
\* the value of every reader that does not fail, and the aggregation itself
\* answers.
C1_WorkingReadersReported ==
    StatusDone =>
        /\ response.code = 200
        /\ \A i \in 1..5 : ~Fails(i) => response.body[Fields[i]] = ReadValue(i)

\* C10: the snapshot returned has all seven keys, and the fields filled by
\* readers are a prefix of disk, memory, load average, uptime, firewall: the
\* readers before the first failing one left their values, that reader's
\* field and every later one hold their defaults.
C10_FilledFieldsArePrefix ==
    StatusDone =>
        /\ response.code = 200
        /\ DOMAIN response.body = StatusKeys
        /\ \A i \in 1..5 :
              response.body[Fields[i]] =
                  IF i < FirstFailure THEN ReadValue(i) ELSE DefaultOf(i)

\* C10's case: the load average is the first reader to fail, disk and memory
\* hold what was read, and uptime holds its default although uptime -p
\* would have answered.
C10_Witness ==
    /\ StatusDone
    /\ FirstFailure = 3
    /\ response.body.disk_usage = PyStr(<<"4", "5">>)
    /\ response.body.memory_usage = PyInt(33)
    /\ req.uptime.rc = "ok"
    /\ response.body.uptime = PyStr(<<"unknown">>)

\* where the lines of free's output that start with 'Mem:' are
MemLines == {i \in 1..Len(req.free.out) : LineStartsWith(req.free.out[i], MemMarker)}

\* round(a / b) of Python: to nearest, ties to even
RoundDiv(a, b) ==
    IF 2 * (a % b) > b \/ (2 * (a % b) = b /\ (a \div b) % 2 = 1)
    THEN a \div b + 1
    ELSE a \div b

\* the memory reader has run on free's output
MemoryReaderRan ==
    /\ req.kind = "status"
    /\ pc \in {"loadavg", "uptime", "ufw", "return", "done"}
    /\ ~Fails(1)
    /\ req.free.rc = "ok"

\* C9: for a 'Mem:' line with total > 0 and 0 <= used <= total, memory_usage
\* is round(used / total * 100); with no 'Mem:' line the field keeps its
\* default and the reader raises nothing.
C9_MemoryUsageRounded ==
    MemoryReaderRan =>
        IF MemLines = {}
        THEN status.memory_usage = PyInt(0) /\ ~Fails(2)
        ELSE LET total == ParseInt(req.free.out[Min(MemLines)][2])
                 used == ParseInt(req.free.out[Min(MemLines)][3])
             IN (total.ok /\ used.ok /\ total.v > 0 /\ 0 <= used.v /\ used.v <= total.v)
                    => status.memory_usage = PyInt(RoundDiv(100 * used.v, total.v))

\* C5: whatever the alerts file holds, get_alerts returns a summary whose
\* total is len(critical) + len(high) + len(medium) of the lists returned.
C5_TotalRecomputed ==
    (pc = "done" /\ req.kind = "alerts") =>
        /\ response.code = 200
        /\ response.body.total = PyLen(response.body.critical)
                                 + PyLen(response.body.high)
                                 + PyLen(response.body.medium)

\* C6: when the lines query value is absent or <= 0, the count handed to
\* tail by api_activity and api_logs is the default, 100.
C6_NonPositiveLinesDefaulted ==
    (/\ pc \in {"activity_tail", "logs_tail"}
     /\ \/ ~req.lines.present
        \/ ParseInt(req.lines.v).ok /\ ParseInt(req.lines.v).v <= 0)
        => tailArgs.n = <<"1", "0", "0">>

\* a reader is inside check_output on a command that never exits
WaitingOnHungCommand ==
    \/ pc = "df" /\ req.df.rc = "hang"
    \/ pc = "free" /\ req.free.rc = "hang"
    \/ pc = "uptime" /\ req.uptime.rc = "hang"
    \/ pc = "ufw" /\ req.ufw.rc = "hang"
    \/ pc \in {"activity_tail", "logs_tail"} /\ req.tail = "hang"

\* C7: every command invocation is bounded by a timeout: when the command
\* never exits, the request still comes to its response.
C7_HungCommandTimesOut == WaitingOnHungCommand ~> (pc = "done")

\* a trigger request for a job outside {hourly, daily}
RejectedJob(r) == r.kind = "trigger" /\ r.job \notin {"hourly", "daily"}

\* C2: a job identifier outside {hourly, daily} is answered 400, and no step
\* taken for that request starts a child process.
C2_UnlistedJobRejected ==
    /\ [](RejectedJob(req) => pc = "done" /\ response.code = 400)
    /\ [][RejectedJob(req') => Len(children') = Len(children)]_vars

\* C2's case: a request for weekly, whose script is there and would start,
\* has been answered.
C2_Witness ==
    /\ pc = "done"
    /\ req.kind = "trigger"
    /\ req.job = "weekly"
    /\ req.script = "launchable"
    /\ response.code = 400

\* a trigger request for a listed job whose run-<job>.sh is not on disk
MissingScript(r) ==
    r.kind = "trigger" /\ r.job \in {"hourly", "daily"} /\ r.script = "missing"

\* C3: a listed job whose executable does not exist is answered 404, and no
\* step taken for that request starts a child process.
C3_MissingScriptNotFound ==
    /\ [](MissingScript(req) => pc = "done" /\ response.code = 404)
    /\ [][MissingScript(req') => Len(children') = Len(children)]_vars

\* C3's case: a request for daily with no run-daily.sh has been answered.
C3_Witness ==
    /\ pc = "done"
    /\ req.kind = "trigger"
    /\ req.job = "daily"
    /\ req.script = "missing"
    /\ response.code = 404

\* the answer of a launch that went through
LaunchReported ==
    /\ response.code \in 200..299
    /\ response.body.success = TRUE
    /\ response.body.timestamp # <<>>

\* C4 as stated: a trigger request for hourly whose executable exists is
\* answered success=true, 2xx, with a non-empty timestamp.
C4_HourlyExistsReported ==
    (pc = "done" /\ req.kind = "trigger" /\ req.job = "hourly" /\ req.script # "missing")
        => LaunchReported

\* C4 amended: a trigger request for hourly whose executable exists and
\* whose launch does not raise is answered success=true, 2xx, with a
\* non-empty timestamp.
C4_HourlyLaunchedReported ==
    (pc = "done" /\ req.kind = "trigger" /\ req.job = "hourly" /\ req.script = "launchable")
        => /\ response.code \in 200..299
           /\ response.body.success = TRUE
           /\ Len(response.body.timestamp) > 0

\* C4's case: hourly was launched and the request answered.
C4_Witness ==
    /\ pc = "done"
    /\ req.kind = "trigger"
    /\ req.job = "hourly"
    /\ req.script = "launchable"
    /\ children # <<>>
    /\ children[Len(children)].job = "hourly"
    /\ response.code = 200

\* C8: once the child is started the response is made without waiting for
\* it: the return is enabled whatever the child's state, the response is
\* reached also when the job never ends, and it reports success whether the
\* job is running or has ended with either exit status.
C8_ResponseDoesNotWaitForJob ==
    /\ [](pc = "launched" => ENABLED TriggerReturn)
    /\ (pc = "launched") ~> (pc = "done" /\ response.code = 200)
    /\ []((pc = "done" /\ req.kind = "trigger" /\ response.code = 200)
            => response.body.success = TRUE)

\* C8's case: the response is made while the job it launched still runs.
C8_Witness ==
    /\ pc = "done"
    /\ req.kind = "trigger"
    /\ response.code = 200
    /\ response.body.success = TRUE
    /\ children[Len(children)].st = "running"

=============================================================================
